---- MODULE Spec2Model ----
(***************************************************************************)
(* image_splitter.py: find_vertical_black_line_center (the line detector)   *)
(* and split_jpeg_in_half_by_line (the folder loop that crops and saves).   *)
(*                                                                         *)
(* An image is given by what the detector reads of it: its width, its      *)
(* height and, per column, the number of pixels that cv2.threshold turned   *)
(* to 0 (column_sums, line 45).  Columns are indexed 0..width-1 as in the   *)
(* source.  The float parameters min_line_density and                      *)
(* search_middle_fraction are rationals <<num, den>> with den > 0.          *)
(***************************************************************************)
EXTENDS Integers, Sequences, FiniteSets, TLC

VARIABLES
    img,                     \* the decoded image of the detector call, or Unreadable
    params,                  \* min_line_width, min_line_density, search_middle_fraction
    pc,                      \* position in find_vertical_black_line_center / the folder loop
    window,                  \* [search_start_x, search_end_x] once computed
    potential_line_centers,  \* the first scan's list
    result,                  \* the detector's return value
    files,                   \* os.listdir(folder_path), in listing order
    idx,                     \* index of the next file of the loop
    processed_count,         \* line 138
    output,                  \* the files of output_folder: name -> crop
    splits,                  \* per file that reached line 159: its width and split_x
    summary                  \* what lines 178-181 report

vars == <<img, params, pc, window, potential_line_centers, result,
          files, idx, processed_count, output, splits, summary>>

\* Python's None, and an int return value x, kept apart from each other
None == <<>>
Some(x) == <<x>>

\* a file cv2.imread returns None for (line 25)
Unreadable == [readable |-> FALSE, width |-> 0, height |-> 0, column_sums |-> <<>>]

NoWindow == [search_start_x |-> 0, search_end_x |-> 0]
NoSummary == [kind |-> "running"]

\* ------------------------------------------------------------------ bounds
MaxWidth == 5
MaxHeight == 2
MaxWindowWidth == 12
MaxFracDen == 4
MaxFiles == 2

\* ------------------------------------------------------- default parameters
DefaultMinLineWidth == 5
DefaultMinLineDensity == <<95, 100>>
DefaultSearchMiddleFraction == <<1, 5>>

\* ---------------------------------------------------------------- helpers
Max(a, b) == IF a >= b THEN a ELSE b
Min(a, b) == IF a <= b THEN a ELSE b

\* int(): truncation toward zero of the rational n/d, d > 0
IntTrunc(n, d) == IF n >= 0 THEN n \div d ELSE -((-n) \div d)

\* ------------------------------------------------ the search region (31-38)
SearchWidth(width, frac) == IntTrunc(width * frac[1], frac[2])

SearchStartXZero(width, frac) == 0
SearchStartX(width, frac) == Max(0, (width - SearchWidth(width, frac)) \div 2)

SearchEndXUnclamped(width, frac) ==
    (width - SearchWidth(width, frac)) \div 2 + SearchWidth(width, frac)
SearchEndX(width, frac) ==
    Min(width, (width - SearchWidth(width, frac)) \div 2 + SearchWidth(width, frac))

DefineSearchRegion(width, frac) ==
    [search_start_x |-> SearchStartX(width, frac),
     search_end_x   |-> SearchEndX(width, frac)]

\* range(search_start_x, search_end_x)
Range(w) == {x \in w.search_start_x .. (w.search_end_x - 1) : TRUE}

\* ------------------------------------------- column densities (45-48, 56, 94)
\* column_densities[x] >= min_line_density, with column_densities = column_sums / height
IsDense(image, x, density) ==
    image.column_sums[x] * density[2] >= density[1] * image.height

\* ------------------------------------------------------ the tests of a run
LineWidth(start, end) == end - start + 1

LineCenterOffByOne(start, end) == (start + end + 1) \div 2
LineCenter(start, end) == (start + end) \div 2

WideEnoughValidated(line_width, min_line_width) ==
    min_line_width > 0 /\ line_width >= min_line_width
WideEnough(line_width, min_line_width) == line_width >= min_line_width

WiderOrEqual(line_width, max_line_width_found) == line_width >= max_line_width_found
Wider(line_width, max_line_width_found) == line_width > max_line_width_found

\* ------------------------------------------------------- first scan (51-73)
FirstScanStart ==
    [is_in_line |-> FALSE, current_line_start |-> -1, centers |-> <<>>]

\* closing a run at current_line_end (62-66, 70-73)
FirstScanClose(st, current_line_end, p) ==
    IF WideEnough(LineWidth(st.current_line_start, current_line_end), p.min_line_width)
    THEN [st EXCEPT !.centers =
              Append(@, LineCenter(st.current_line_start, current_line_end))]
    ELSE st

\* one iteration of the loop of line 55
FirstScanStep(st, image, x, p) ==
    IF IsDense(image, x, p.min_line_density)
    THEN IF ~st.is_in_line
         THEN [st EXCEPT !.current_line_start = x, !.is_in_line = TRUE]
         ELSE st
    ELSE IF st.is_in_line
         THEN [FirstScanClose(st, x - 1, p) EXCEPT !.is_in_line = FALSE]
         ELSE st

\* the loop over range(x, end), left to right: the iterations of x .. mid-1,
\* then, from the state they leave (computed first), those of mid .. end-1
RECURSIVE FirstScanLoop(_, _, _, _, _)
FirstScanLoop(st, image, x, end, p) ==
    IF x >= end THEN st
    ELSE IF x + 1 = end THEN FirstScanStep(st, image, x, p)
    ELSE LET mid == (x + end) \div 2
             half == FirstScanLoop(st, image, x, mid, p)
         IN  IF DOMAIN half = DOMAIN st
             THEN FirstScanLoop(half, image, mid, end, p)
             ELSE half

FirstScanNoTrailing(st, w, p) == st
\* lines 69-73
FirstScanTrailing(st, w, p) ==
    IF st.is_in_line THEN FirstScanClose(st, w.search_end_x - 1, p) ELSE st

PotentialLineCenters(image, w, p) ==
    FirstScanTrailing(
        FirstScanLoop(FirstScanStart, image, w.search_start_x, w.search_end_x, p),
        w, p).centers

\* ----------------------------------------------------- second scan (87-117)
SecondScanStart ==
    [is_in_line |-> FALSE, current_line_start |-> -1,
     best_line_center |-> None, max_line_width_found |-> 0]

\* closing a run at current_line_end (100-105, 110-115)
SecondScanClose(st, current_line_end, p) ==
    LET line_width == LineWidth(st.current_line_start, current_line_end)
    IN  IF WideEnough(line_width, p.min_line_width)
           /\ Wider(line_width, st.max_line_width_found)
        THEN [st EXCEPT !.max_line_width_found = line_width,
                        !.best_line_center =
                            Some(LineCenter(st.current_line_start, current_line_end))]
        ELSE st

SecondScanStep(st, image, x, p) ==
    IF IsDense(image, x, p.min_line_density)
    THEN IF ~st.is_in_line
         THEN [st EXCEPT !.current_line_start = x, !.is_in_line = TRUE]
         ELSE st
    ELSE IF st.is_in_line
         THEN [SecondScanClose(st, x - 1, p) EXCEPT !.is_in_line = FALSE]
         ELSE st

\* the loop over range(x, end), left to right: the iterations of x .. mid-1,
\* then, from the state they leave (computed first), those of mid .. end-1
RECURSIVE SecondScanLoop(_, _, _, _, _)
SecondScanLoop(st, image, x, end, p) ==
    IF x >= end THEN st
    ELSE IF x + 1 = end THEN SecondScanStep(st, image, x, p)
    ELSE LET mid == (x + end) \div 2
             half == SecondScanLoop(st, image, x, mid, p)
         IN  IF DOMAIN half = DOMAIN st
             THEN SecondScanLoop(half, image, mid, end, p)
             ELSE half

SecondScanNoTrailing(st, w, p) == st
\* lines 109-115
SecondScanTrailing(st, w, p) ==
    IF st.is_in_line THEN SecondScanClose(st, w.search_end_x - 1, p) ELSE st

BestLineCenter(image, w, p) ==
    SecondScanTrailing(
        SecondScanLoop(SecondScanStart, image, w.search_start_x, w.search_end_x, p),
        w, p).best_line_center

\* ------------------------------- find_vertical_black_line_center as a whole
FindVerticalBlackLineCenter(image, p) ==
    IF ~image.readable THEN None
    ELSE LET w == DefineSearchRegion(image.width, p.search_middle_fraction)
         IN  IF PotentialLineCenters(image, w, p) = <<>> THEN None
             ELSE BestLineCenter(image, w, p)

\* ------------------------------------------------------------- the inputs
Widths == 1 .. MaxWidth
Heights == 1 .. MaxHeight

ImagesOf(widths, heights) ==
    UNION {{[readable |-> TRUE, width |-> w, height |-> h, column_sums |-> cs] :
                cs \in [0 .. (w - 1) -> 0 .. h]} : <<w, h>> \in widths \X heights}

\* a width x height image whose columns first..last are fully black, the rest white
LineImage(width, height, first, last) ==
    [readable |-> TRUE, width |-> width, height |-> height,
     column_sums |-> [x \in 0 .. (width - 1) |->
                          IF first <= x /\ x <= last THEN height ELSE 0]]

ScenarioImage == LineImage(1000, 600, 495, 504)

DefaultParams ==
    [min_line_width |-> DefaultMinLineWidth,
     min_line_density |-> DefaultMinLineDensity,
     search_middle_fraction |-> DefaultSearchMiddleFraction]

ParamsOf(widths, densities, fractions) ==
    [min_line_width : widths, min_line_density : densities,
     search_middle_fraction : fractions]

InRangeParams ==
    ParamsOf({1, 2, DefaultMinLineWidth},
             {<<1, 2>>, DefaultMinLineDensity},
             {DefaultSearchMiddleFraction, <<1, 2>>, <<3, 5>>, <<1, 1>>})

\* min_line_width <= 0, included for the two scans' agreement
DetectParams ==
    InRangeParams \cup
    ParamsOf({0}, {<<1, 2>>}, {<<1, 2>>, <<1, 1>>})

AnyParams ==
    ParamsOf({-1, 0, 2}, {<<-1, 2>>, <<1, 2>>, <<3, 2>>},
             {<<-1, 2>>, <<1, 2>>, <<3, 2>>})

OutOfRange(p) ==
    \/ p.min_line_width <= 0
    \/ p.min_line_density[1] > p.min_line_density[2]
    \/ p.min_line_density[1] < 0
    \/ p.search_middle_fraction[1] < 0
    \/ p.search_middle_fraction[1] > p.search_middle_fraction[2]

GarbageParams == {p \in AnyParams : OutOfRange(p)}

\* uniform images (every column white, or every column black) of widths 0..MaxWindowWidth
WindowImages ==
    {LineImage(w, 1, 0, last) : w \in 0 .. MaxWindowWidth, last \in {-1, MaxWindowWidth}}

WindowParams ==
    {p \in ParamsOf({1}, {<<1, 2>>}, (0 .. 2 * MaxFracDen) \X (1 .. MaxFracDen)) :
        p.search_middle_fraction[1] <= 2 * p.search_middle_fraction[2]}

\* ------------------------ find_vertical_black_line_center, statement by statement
NoFolder ==
    /\ files = <<>>
    /\ idx = 0
    /\ processed_count = 0
    /\ output = {}
    /\ splits = <<>>
    /\ summary = NoSummary

DetectorStart(images, ps) ==
    /\ img \in images
    /\ params \in ps
    /\ pc = "imread"
    /\ window = NoWindow
    /\ potential_line_centers = <<>>
    /\ result = None
    /\ NoFolder

InitDetect ==
    \/ DetectorStart(ImagesOf(Widths, Heights) \cup {Unreadable}, DetectParams)
    \/ DetectorStart({ScenarioImage}, {DefaultParams})

InitGarbage == DetectorStart(ImagesOf(Widths, Heights), GarbageParams)

InitWindow == DetectorStart(WindowImages, WindowParams)

folderVars == <<files, idx, processed_count, output, splits, summary>>

\* lines 24-38
ReadImage ==
    /\ pc = "imread"
    /\ IF ~img.readable
       THEN /\ pc' = "done"
            /\ UNCHANGED window
       ELSE /\ pc' = "first_scan"
            /\ window' = DefineSearchRegion(img.width, params.search_middle_fraction)
    /\ UNCHANGED <<img, params, potential_line_centers, result, folderVars>>

\* lines 50-77
FirstScan ==
    /\ pc = "first_scan"
    /\ potential_line_centers' = PotentialLineCenters(img, window, params)
    /\ pc' = IF potential_line_centers' = <<>> THEN "done" ELSE "second_scan"
    /\ UNCHANGED <<img, params, window, result, folderVars>>

\* lines 87-117
SecondScan ==
    /\ pc = "second_scan"
    /\ result' = BestLineCenter(img, window, params)
    /\ pc' = "done"
    /\ UNCHANGED <<img, params, window, potential_line_centers, folderVars>>

NextDetect == ReadImage \/ FirstScan \/ SecondScan

SpecDetect == InitDetect /\ [][NextDetect]_vars
SpecGarbage == InitGarbage /\ [][NextDetect]_vars
SpecWindow == InitWindow /\ [][NextDetect]_vars

\* ======================================================================
\* split_jpeg_in_half_by_line
\* ======================================================================

\* filename.lower() for the extensions of the listing
Lower(ext) ==
    CASE ext = ".JPG" -> ".jpg"
      [] ext = ".JPEG" -> ".jpeg"
      [] OTHER -> ext

\* line 140; a file is [base, ext] with (base, ext) = os.path.splitext(filename)
IsJpeg(f) == Lower(f.ext) \in {".jpg", ".jpeg"}

\* lines 147-151: the detected line, or the geometric center
ChooseSplitX(f) ==
    LET detected == FindVerticalBlackLineCenter(f.image, DefaultParams)
    IN  IF detected = None THEN f.image.width \div 2 ELSE detected[1]

\* line 159
Clamp(split_x, width) == Max(1, Min(split_x, width - 1))

\* img.crop((from, 0, to, height)) of file f: its columns [from, to)
Crop(f, from, to) == [of |-> <<f.base, f.ext>>, from |-> from, to |-> to]

\* lines 166-167
LeftHalfNameOne(f) == <<f.base, "(1)", f.ext>>
LeftHalfName(f) == <<f.base, "(2)", f.ext>>
RightHalfName(f) == <<f.base, "(1)", f.ext>>

\* image.save(path): the file of that name now holds the crop
Save(out, name, crop) == {e \in out : e[1] # name} \cup {<<name, crop>>}

\* line 175: the except clause ends the iteration, the loop goes on
AfterExceptionAbort(i, n) == n + 1
AfterException(i, n) == i + 1

\* ---------------------------------------------------------- the folder
\* widths 1 and 2, and 26 columns without and with a black line in the
\* middle fifth (columns 10..14)
FolderImages ==
    {LineImage(1, 1, 0, -1), LineImage(2, 1, 0, -1),
     LineImage(26, 1, 0, -1), LineImage(26, 1, 10, 14)}

FileNames == {<<"a", ".jpg">>, <<"a", ".JPEG">>, <<"b", ".png">>}

\* raises: the statement of the iteration that raises, if any (Image.open on
\* a corrupt file, a failing save)
Files ==
    {[base |-> n[1], ext |-> n[2], image |-> i, raises |-> r] :
        n \in FileNames, i \in FolderImages,
        r \in {"none", "open", "save_left", "save_right"}}

\* listings: no two entries of a folder have the same name
Listings ==
    UNION {{l \in [1 .. n -> Files] :
               \A i, j \in 1 .. n :
                   i # j => <<l[i].base, l[i].ext>> # <<l[j].base, l[j].ext>>} :
           n \in 0 .. MaxFiles}

InitSplit ==
    /\ files \in Listings
    /\ idx = 1
    /\ processed_count = 0
    /\ output = {}
    /\ splits = <<>>
    /\ summary = NoSummary
    /\ pc = "loop"
    /\ img = Unreadable
    /\ params = DefaultParams
    /\ window = NoWindow
    /\ potential_line_centers = <<>>
    /\ result = None

detectorVars == <<img, params, window, potential_line_centers, result>>

\* one iteration of the loop of line 139, its try/except included
ProcessFile ==
    /\ pc = "loop"
    /\ idx <= Len(files)
    /\ LET f == files[idx]
           width == f.image.width
           split_x == Clamp(ChooseSplitX(f), width)
           left_half == Crop(f, 0, split_x)
           right_half == Crop(f, split_x, width)
       IN  IF ~IsJpeg(f)
           THEN /\ idx' = idx + 1
                /\ UNCHANGED <<processed_count, output, splits>>
           ELSE IF f.raises = "open"
           THEN /\ idx' = AfterException(idx, Len(files))
                /\ UNCHANGED <<processed_count, output, splits>>
           ELSE /\ splits' = Append(splits,
                                    [file |-> idx, width |-> width, split_x |-> split_x])
                /\ CASE f.raises = "save_left" ->
                          /\ idx' = AfterException(idx, Len(files))
                          /\ UNCHANGED <<processed_count, output>>
                     [] f.raises = "save_right" ->
                          /\ output' = Save(output, LeftHalfName(f), left_half)
                          /\ idx' = AfterException(idx, Len(files))
                          /\ UNCHANGED processed_count
                     [] OTHER ->
                          /\ output' = Save(Save(output, LeftHalfName(f), left_half),
                                            RightHalfName(f), right_half)
                          /\ processed_count' = processed_count + 1
                          /\ idx' = idx + 1
    /\ UNCHANGED <<files, pc, summary, detectorVars>>

\* lines 178-183
Finish ==
    /\ pc = "loop"
    /\ idx > Len(files)
    /\ summary' = IF processed_count > 0
                  THEN [kind |-> "finished", processed |-> processed_count]
                  ELSE [kind |-> "no_images"]
    /\ pc' = "done"
    /\ UNCHANGED <<files, idx, processed_count, output, splits, detectorVars>>

NextSplit == ProcessFile \/ Finish

SpecSplit == InitSplit /\ [][NextSplit]_vars

\* ======================================================================
\* Properties of find_vertical_black_line_center
\* ======================================================================

\* the search window as section 4.1 step 2 writes it
StatedWindow ==
    LET width == img.width
        frac == params.search_middle_fraction
        search_width == (width * frac[1]) \div frac[2]
        start == Max(0, (width - search_width) \div 2)
    IN  [search_start_x |-> start, search_end_x |-> Min(width, start + search_width)]

Returned == pc = "done" /\ img.readable

DenseAt(x) ==
    img.column_sums[x] * params.min_line_density[2]
        >= params.min_line_density[1] * img.height

\* the maximal runs of dense columns inside the window w, as <<start, end>>
RunsIn(w) ==
    {r \in Range(w) \X Range(w) :
        /\ r[1] <= r[2]
        /\ \A x \in r[1] .. r[2] : DenseAt(x)
        /\ r[1] = w.search_start_x \/ ~DenseAt(r[1] - 1)
        /\ r[2] = w.search_end_x - 1 \/ ~DenseAt(r[2] + 1)}

RunWidth(r) == r[2] - r[1] + 1
Midpoint(r) == (r[1] + r[2]) \div 2

QualifyingIn(w) == {r \in RunsIn(w) : RunWidth(r) >= params.min_line_width}

\* the widest qualifying run, the leftmost of them on a tie
WidestIn(w) ==
    CHOOSE r \in QualifyingIn(w) :
        \A q \in QualifyingIn(w) :
            \/ RunWidth(q) < RunWidth(r)
            \/ RunWidth(q) = RunWidth(r) /\ r[1] <= q[1]

\* C1: when runs of dense columns inside the search window qualify
\* (width >= min_line_width), the function returns the midpoint of the
\* strictly widest of them, and of the leftmost one when several are widest.
C1_WidestLeftmostRun ==
    (Returned /\ QualifyingIn(StatedWindow) # {})
        => result = Some(Midpoint(WidestIn(StatedWindow)))

C1_Witness ==
    /\ Returned
    /\ \E r, q \in QualifyingIn(StatedWindow) :
          /\ r[1] < q[1]
          /\ RunWidth(r) = RunWidth(q)
          /\ \A o \in QualifyingIn(StatedWindow) : RunWidth(o) <= RunWidth(r)
          /\ result = Some(Midpoint(r))
          /\ Midpoint(r) # Midpoint(q)

DenseColumns == {x \in 0 .. (img.width - 1) : DenseAt(x)}

\* the image's dense columns are one contiguous run <<a, b>> inside the window
SingleRun(a, b) ==
    /\ DenseColumns = a .. b
    /\ a <= b
    /\ b - a + 1 >= params.min_line_width
    /\ StatedWindow.search_start_x <= a
    /\ b < StatedWindow.search_end_x

\* C2: an image whose only dense columns are one contiguous run of width
\* >= min_line_width lying in the search window yields that run's midpoint
\* (start + end) // 2; the 1000-column image with columns 495..504 black
\* and default parameters yields 499.
C2_SingleRunMidpoint ==
    /\ Returned =>
          \A a, b \in DenseColumns : SingleRun(a, b) => result = Some((a + b) \div 2)
    /\ (Returned /\ img = ScenarioImage /\ params = DefaultParams) => result = Some(499)

C2_Witness ==
    /\ Returned
    /\ img = ScenarioImage
    /\ params = DefaultParams
    /\ SingleRun(495, 504)
    /\ window = [search_start_x |-> 400, search_end_x |-> 600]
    /\ result = Some(499)

\* ----------------------------------------------------------------------
\* the call's result as a function of an image, a window and the parameters
ResultOn(image, w) ==
    IF PotentialLineCenters(image, w, params) = <<>> THEN None
    ELSE BestLineCenter(image, w, params)

\* a run is open at the window's last column
TrailingOpen(w) ==
    /\ w.search_start_x < w.search_end_x
    /\ DenseAt(w.search_end_x - 1)

\* the start of the run that is open at the window's last column
TrailingStart(w) ==
    CHOOSE a \in Range(w) : <<a, w.search_end_x - 1>> \in RunsIn(w)

\* the same columns with a white column after the window's last one and the
\* window one column longer: the trailing run made an interior run
Interior(w) ==
    [image |-> [img EXCEPT !.column_sums =
                    [x \in 0 .. Max(img.width - 1, w.search_end_x) |->
                        IF x = w.search_end_x THEN 0 ELSE img.column_sums[x]]],
     window |-> [w EXCEPT !.search_end_x = @ + 1]]

\* C3: a run still open at the window's last column search_end_x - 1 is
\* closed there and judged as an interior run is: the result is the one the
\* same columns give when the run ends before the boundary, and a trailing
\* run of width >= min_line_width is never dropped.
C3_TrailingRunAsInterior ==
    (Returned /\ TrailingOpen(StatedWindow)) =>
        LET w == StatedWindow
            a == TrailingStart(w)
        IN  /\ result = ResultOn(Interior(w).image, Interior(w).window)
            /\ (w.search_end_x - a >= params.min_line_width) =>
                  /\ result # None
                  /\ \E r \in QualifyingIn(w) :
                        /\ result = Some(Midpoint(r))
                        /\ RunWidth(r) >= w.search_end_x - a

C3_Witness ==
    /\ Returned
    /\ TrailingOpen(StatedWindow)
    /\ StatedWindow.search_end_x - TrailingStart(StatedWindow) >= params.min_line_width
    /\ Cardinality(RunsIn(StatedWindow)) >= 2
    /\ result = Some(Midpoint(<<TrailingStart(StatedWindow),
                                StatedWindow.search_end_x - 1>>))

\* C4: when no column inside the search window is dense the function
\* returns None, whatever the columns outside the window are.
C4_NoDenseColumnInWindow ==
    (Returned /\ \A x \in Range(StatedWindow) : ~DenseAt(x)) => result = None

C4_Witness ==
    /\ Returned
    /\ \A x \in Range(StatedWindow) : ~DenseAt(x)
    /\ Range(StatedWindow) # {}
    /\ \E x \in DenseColumns : x < StatedWindow.search_start_x
    /\ \E x \in DenseColumns : x >= StatedWindow.search_end_x
    /\ params.min_line_width = 1
    /\ result = None

\* C10: the two scans together return what the second scan alone returns:
\* the first scan's list is empty exactly when the second scan finds no
\* best line, and None is never returned while a qualifying run exists.
C10_TwoScansAsOne ==
    Returned =>
        /\ result = BestLineCenter(img, window, params)
        /\ (potential_line_centers = <<>>) <=> (BestLineCenter(img, window, params) = None)
        /\ QualifyingIn(window) # {} => result # None
        /\ Len(potential_line_centers) = Cardinality(QualifyingIn(window))

C10_Witness ==
    /\ Returned
    /\ params.min_line_width <= 0
    /\ Len(potential_line_centers) >= 2
    /\ result = BestLineCenter(img, window, params)
    /\ result # None

\* ----------------------------------------------------------------------
\* C8 as stated: with out-of-range parameter values the function returns
\* None (no line found), for every image.
C8_GarbageGivesNone ==
    (Returned /\ OutOfRange(params)) => result = None

\* C8 as amended: with out-of-range parameter values the function returns
\* None or a column of the search window; None when min_line_density > 1 or
\* search_middle_fraction <= 0; and otherwise (min_line_width <= 0,
\* min_line_density < 0, search_middle_fraction > 1) the midpoint of the
\* widest qualifying run of the window whenever there is one.
C8_GarbageStillDetects ==
    (Returned /\ OutOfRange(params)) =>
        /\ result = None \/ \E x \in Range(window) : result = Some(x)
        /\ (\/ params.min_line_density[1] > params.min_line_density[2]
            \/ params.search_middle_fraction[1] <= 0) => result = None
        /\ QualifyingIn(window) # {} => result = Some(Midpoint(WidestIn(window)))
        /\ QualifyingIn(window) = {} => result = None

C8_Witness ==
    /\ Returned
    /\ params.min_line_width < 0
    /\ params.min_line_density[1] < 0
    /\ params.search_middle_fraction[1] > params.search_middle_fraction[2]
    /\ DenseColumns = 0 .. (img.width - 1)
    /\ img.width >= 2
    /\ result = Some((img.width - 1) \div 2)

\* ----------------------------------------------------------------------
WindowComputed == pc # "imread" /\ img.readable

\* C9: for search_middle_fraction in [0, 1] the window lies in the image,
\* spans floor(width * fraction) columns and is centered (the columns left
\* and right of it differ by at most one); and for every fraction >= 0 the
\* code's search_end_x (from the unclamped start) is the stated one (from
\* the clamped start).
C9_WindowCentered ==
    WindowComputed =>
        LET width == img.width
            frac == params.search_middle_fraction
            search_width == (width * frac[1]) \div frac[2]
            left == window.search_start_x
            right == width - window.search_end_x
        IN  /\ (0 <= frac[1] /\ frac[1] <= frac[2]) =>
                  /\ 0 <= window.search_start_x
                  /\ window.search_start_x <= window.search_end_x
                  /\ window.search_end_x <= width
                  /\ window.search_end_x - window.search_start_x = search_width
                  /\ left - right \in {-1, 0, 1}
            /\ frac[1] >= 0 => window = StatedWindow

C9_Witness ==
    /\ WindowComputed
    /\ params.search_middle_fraction = <<3, 4>>
    /\ img.width = 11
    /\ window = [search_start_x |-> 1, search_end_x |-> 9]

\* ======================================================================
\* Properties of split_jpeg_in_half_by_line
\* ======================================================================

\* C5: after the clamp 1 <= split_x <= width - 1, so that both crops
\* [0, split_x) and [split_x, width) have positive width, for every image
\* width >= 1.
C5_SplitInsideImage ==
    \A i \in DOMAIN splits :
        /\ splits[i].width >= 1
        /\ 1 <= splits[i].split_x
        /\ splits[i].split_x <= splits[i].width - 1

Eligible == {i \in DOMAIN files : IsJpeg(files[i])}
Raising == {i \in Eligible : files[i].raises # "none"}
Split == Eligible \ Raising

BothHalvesWritten(i) ==
    \E l, r \in output :
        /\ l[1] # r[1]
        /\ l[2].of = <<files[i].base, files[i].ext>>
        /\ r[2].of = l[2].of
        /\ l[2].from = 0
        /\ l[2].to = r[2].from
        /\ r[2].to = files[i].image.width

HalfOf(i, name, from, to) == <<name, Crop(files[i], from, to)>> \in output

\* C7 as stated: the left half [0, split_x) is written to name(1).ext and
\* the right half [split_x, width) to name(2).ext.
C7_LeftHalfIsOne ==
    \A k \in DOMAIN splits :
        LET i == splits[k].file
            f == files[i]
        IN  (i < idx /\ i \in Split) =>
                /\ HalfOf(i, <<f.base, "(1)", f.ext>>, 0, splits[k].split_x)
                /\ HalfOf(i, <<f.base, "(2)", f.ext>>, splits[k].split_x, f.image.width)

\* C7 as amended: the left half [0, split_x) is written to name(2).ext and
\* the right half [split_x, width) to name(1).ext.
C7_LeftHalfIsTwo ==
    \A k \in DOMAIN splits :
        LET i == splits[k].file
            f == files[i]
        IN  (i < idx /\ i \in Split) =>
                /\ HalfOf(i, <<f.base, "(2)", f.ext>>, 0, splits[k].split_x)
                /\ HalfOf(i, <<f.base, "(1)", f.ext>>, splits[k].split_x, f.image.width)

C7_Witness ==
    /\ pc = "done"
    /\ \E k \in DOMAIN splits :
          LET i == splits[k].file
          IN  /\ i \in Split
              /\ files[i].image = LineImage(26, 1, 10, 14)
              /\ splits[k].split_x = 12
              /\ HalfOf(i, <<files[i].base, "(2)", files[i].ext>>, 0, 12)
              /\ HalfOf(i, <<files[i].base, "(1)", files[i].ext>>, 12, 26)

====
